---------------------------- MODULE Spec2Model ----------------------------
(***************************************************************************)
(* Model of the syllabifier (syllabify.py) and of the Word Complexity      *)
(* Measure built on it (wcm.py).                                           *)
(*                                                                         *)
(* A phoneme is the ARPABET string the code compares.  One behaviour is    *)
(* one call syllabify(pron, alaska_rule), followed, when the call was made *)
(* with the default alaska_rule and returned, by the scoring part of       *)
(* wcm(pron).  Python indexes from 0, TLA+ sequences from 1: the loop      *)
(* variable i of resolve_onsets_and_codas is kept 0-based, as in the code, *)
(* and every subscript adds one.                                           *)
(***************************************************************************)
EXTENDS Integers, Sequences, FiniteSets, TLC

(***************************************************************************)
(* Bounds of the check.                                                    *)
(***************************************************************************)
MaxLen == 5

(***************************************************************************)
(* Phoneme classification tables.                                          *)
(***************************************************************************)
SLAX ==
    {"IH1", "IH2", "EH1", "EH2", "AE1", "AE2", "AH1", "AH2", "UH1", "UH2"}

VOWELS ==
    {"IY1", "IY2", "IY0", "EY1", "EY2", "EY0", "AA1", "AA2", "AA0",
     "ER1", "ER2", "ER0", "AW1", "AW2", "AW0", "AO1", "AO2", "AO0",
     "AY1", "AY2", "AY0", "OW1", "OW2", "OW0", "OY1", "OY2", "OY0",
     "IH0", "EH0", "AE0", "AH0", "UH0", "UW1", "UW2", "UW0", "UW",
     "IY", "EY", "AA", "ER", "AW", "AO", "AY", "OW", "OY",
     "UH", "IH", "EH", "AE", "AH"} \cup SLAX

O2 ==
    {<<"P", "R">>, <<"T", "R">>, <<"K", "R">>, <<"B", "R">>, <<"D", "R">>,
     <<"G", "R">>, <<"F", "R">>, <<"TH", "R">>,
     <<"P", "L">>, <<"K", "L">>, <<"B", "L">>, <<"G", "L">>,
     <<"F", "L">>, <<"S", "L">>,
     <<"K", "W">>, <<"G", "W">>, <<"S", "W">>,
     <<"S", "P">>, <<"S", "T">>, <<"S", "K">>,
     <<"HH", "Y">>,
     <<"R", "W">>}

O3 ==
    {<<"S", "T", "R">>, <<"S", "K", "L">>, <<"T", "R", "W">>}

DORSALS == {"K", "G", "NG"}

LIQUIDS == {"L", "R"}

VOICED_AF == {"V", "DH", "Z", "ZH"}

AF == {"F", "TH", "S", "SH", "CH"} \cup VOICED_AF

(***************************************************************************)
(* The inputs of the check: every pronunciation of at most MaxLen phonemes *)
(* over a small inventory, and the words the documentation works through.  *)
(***************************************************************************)
Inventory == {"AH0", "AE1", "S", "T", "R", "Y", "Z"}

Alaska == <<"AH0", "L", "AE1", "S", "K", "AH0">>

Cat == <<"K", "AE1", "T">>

Pronunciations ==
    UNION {[1..n -> Inventory] : n \in 0..MaxLen} \cup {Alaska, Cat}

(***************************************************************************)
(* Python list helpers.                                                    *)
(***************************************************************************)
\* s[a:b] with 0-based, non-negative a and b (b clipped to len(s)).
Slice(s, a, b) ==
    LET hi == IF b > Len(s) THEN Len(s) ELSE b
    IN  IF a >= hi THEN <<>> ELSE SubSeq(s, a + 1, hi)

\* s[-n:], the last n elements (all of s when it is shorter).
LastN(s, n) ==
    IF Len(s) <= n THEN s ELSE SubSeq(s, Len(s) - n + 1, Len(s))

\* sum(ph in class for ph in consonants)
RECURSIVE CountIn(_, _)
CountIn(consonants, class) ==
    IF consonants = <<>> THEN 0
    ELSE (IF Head(consonants) \in class THEN 1 ELSE 0)
         + CountIn(Tail(consonants), class)

\* '1' in ph, for the phonemes of the inventory of the code's tables: only
\* the primary-stressed vowel forms contain the digit.
HasPrimaryStressDigit(ph) ==
    ph \in {"IY1", "EY1", "AA1", "ER1", "AW1", "AO1", "AY1", "OW1", "OY1",
            "IH1", "EH1", "AE1", "AH1", "UH1", "UW1"}

VARIABLES
    pc,                 \* position of the call
    pron,               \* the argument pron / the list pronunciation
    alaska_rule,        \* the argument alaska_rule
    nuclei,             \* syllabify's nuclei (identify's result)
    r_nuclei,           \* the resolver's deep copy of nuclei
    onsets,             \* onsets: identify's result, then the resolver's copy
    codas,              \* identify's third result, the residual tail
    resolved_codas,     \* the resolver's resolved_codas
    i,                  \* the resolver's loop variable (0-based)
    applies_alaska_rule,\* the resolver's local of the same name
    syllables,          \* the list syllabify builds and returns
    err,                \* the exception raised, "none" when none
    score               \* wcm's score, -1 before wcm has run

vars ==
    <<pc, pron, alaska_rule, nuclei, r_nuclei, onsets, codas, resolved_codas,
      i, applies_alaska_rule, syllables, err, score>>

(***************************************************************************)
(* identify_nuclei_and_onsets                                              *)
(***************************************************************************)
\* The test of line 61 with the lax vowels left out of the vowel set.
IsNucleus_WithoutSLAX(segment) == segment \in VOWELS \ SLAX

\* Line 61: segment in VOWELS.
IsNucleus(segment) == segment \in VOWELS

\* The for loop: index is the 0-based position, acc the three locals.
RECURSIVE ScanSegments(_, _, _)
ScanSegments(pronunciation, index, acc) ==
    IF index >= Len(pronunciation) THEN acc
    ELSE IF IsNucleus(pronunciation[index + 1])
         THEN ScanSegments(pronunciation, index + 1,
                  [nuclei |-> Append(acc.nuclei, <<pronunciation[index + 1]>>),
                   onsets |-> Append(acc.onsets,
                       Slice(pronunciation, acc.last_vowel_index + 1, index)),
                   last_vowel_index |-> index])
         ELSE ScanSegments(pronunciation, index + 1, acc)

identify_nuclei_and_onsets(pronunciation) ==
    LET acc == ScanSegments(pronunciation, 0,
                   [nuclei |-> <<>>, onsets |-> <<>>, last_vowel_index |-> -1])
    IN  [nuclei |-> acc.nuclei,
         onsets |-> acc.onsets,
         codas  |-> Slice(pronunciation, acc.last_vowel_index + 1,
                          Len(pronunciation))]

Init ==
    /\ pc = "start"
    /\ pron \in Pronunciations
    /\ alaska_rule \in BOOLEAN
    /\ nuclei = <<>>
    /\ r_nuclei = <<>>
    /\ onsets = <<>>
    /\ codas = <<>>
    /\ resolved_codas = <<>>
    /\ i = 0
    /\ applies_alaska_rule = FALSE
    /\ syllables = <<>>
    /\ err = "none"
    /\ score = -1

\* syllabify, lines 185-186: the call of identify_nuclei_and_onsets.
Identify ==
    /\ pc = "start"
    /\ LET r == identify_nuclei_and_onsets(pron)
       IN  /\ nuclei' = r.nuclei
           /\ onsets' = r.onsets
           /\ codas' = r.codas
    /\ pc' = "identified"
    /\ UNCHANGED <<pron, alaska_rule, r_nuclei, resolved_codas, i,
                   applies_alaska_rule, syllables, err, score>>

(***************************************************************************)
(* resolve_onsets_and_codas                                                *)
(***************************************************************************)
\* The check of line 113 alone, the emptiness check of line 111 left out.
InvalidInput_LengthOnly(nuc, ons) == Len(nuc) # Len(ons)

\* Lines 111-114: the two conditions under which the resolver raises.
InvalidInput(nuc, ons) ==
    \/ nuc = <<>> \/ ons = <<>>
    \/ Len(nuc) # Len(ons)

\* The Alaska condition without its flag.
AlaskaApplies_IgnoresFlag(current_onset, flag, prev_nucleus) ==
    /\ Len(current_onset) > 1
    /\ prev_nucleus[Len(prev_nucleus)] \in SLAX
    /\ current_onset[1] = "S"

\* Lines 136-141.
AlaskaApplies(current_onset, flag, prev_nucleus) ==
    /\ Len(current_onset) > 1
    /\ flag
    /\ prev_nucleus[Len(prev_nucleus)] \in SLAX
    /\ current_onset[1] = "S"

\* Onset maximization that keeps any two consonants, legal or not.
OnsetDepth_NoTable(current_onset) ==
    IF Len(current_onset) > 1 THEN 2 ELSE 1

\* Onset maximization that tries the pairs before the triples.
OnsetDepth_PairFirst(current_onset) ==
    IF Len(current_onset) > 1
    THEN IF LastN(current_onset, 2) \in O2 THEN 2
         ELSE IF Len(current_onset) >= 3 /\ LastN(current_onset, 3) \in O3
              THEN 3
         ELSE 1
    ELSE 1

\* Lines 146-153: onset maximization.
OnsetDepth(current_onset) ==
    IF Len(current_onset) > 1
    THEN LET last_two   == LastN(current_onset, 2)
             last_three == IF Len(current_onset) >= 3
                           THEN LastN(current_onset, 3) ELSE <<>>
         IN  IF last_three \in O3 THEN 3
             ELSE IF last_two \in O2 THEN 2
             ELSE 1
    ELSE 1

\* Lines 156-157: the while loop; the result is the pair of lists it leaves.
RECURSIVE TransferToCoda(_, _, _)
TransferToCoda(current_onset, coda, depth) ==
    IF Len(current_onset) > depth
    THEN TransferToCoda(Tail(current_onset),
                        Append(coda, Head(current_onset)), depth)
    ELSE [onset |-> current_onset, coda |-> coda]

\* Lines 122-159: one iteration of the for loop, for the 0-based index k.
ResolveOnset(nuc, ons, k, flag) ==
    LET onset0        == ons[k + 1]
        starts_with_R == Len(onset0) > 1 /\ onset0[1] = "R"
        onset1        == IF starts_with_R THEN Tail(onset0) ELSE onset0
        nuc1          == IF starts_with_R
                         THEN [nuc EXCEPT ![k] = Append(@, onset0[1])]
                         ELSE nuc
        ends_with_Y   == Len(onset1) > 2 /\ onset1[Len(onset1)] = "Y"
        onset2        == IF ends_with_Y
                         THEN SubSeq(onset1, 1, Len(onset1) - 1) ELSE onset1
        nuc2          == IF ends_with_Y
                         THEN [nuc1 EXCEPT ![k + 1] =
                                   <<onset1[Len(onset1)]>> \o @]
                         ELSE nuc1
        applies       == AlaskaApplies(onset2, flag, nuc2[k])
        coda0         == IF applies THEN <<onset2[1]>> ELSE <<>>
        onset3        == IF applies THEN Tail(onset2) ELSE onset2
        split         == TransferToCoda(onset3, coda0, OnsetDepth(onset3))
    IN  [nuclei  |-> nuc2,
         onset   |-> split.onset,
         coda    |-> split.coda,
         applies |-> applies]

\* Lines 111-114: the resolver rejects its arguments.
ResolveReject ==
    /\ pc = "identified"
    /\ InvalidInput(nuclei, onsets)
    /\ err' = "invalid_input"
    /\ pc' = "raised"
    /\ UNCHANGED <<pron, alaska_rule, nuclei, r_nuclei, onsets, codas,
                   resolved_codas, i, applies_alaska_rule, syllables, score>>

\* Lines 116-121: the deep copies, the empty codas, the loop's first index.
ResolveEnter ==
    /\ pc = "identified"
    /\ ~InvalidInput(nuclei, onsets)
    /\ r_nuclei' = nuclei
    /\ resolved_codas' = [k \in 1..Len(onsets) |-> <<>>]
    /\ i' = 1
    /\ pc' = "resolving"
    /\ UNCHANGED <<pron, alaska_rule, nuclei, onsets, codas,
                   applies_alaska_rule, syllables, err, score>>

\* Lines 121-159: the loop body for the medial onset i.
ResolveStep ==
    /\ pc = "resolving"
    /\ i < Len(onsets)
    /\ LET r == ResolveOnset(r_nuclei, onsets, i, alaska_rule)
       IN  /\ r_nuclei' = r.nuclei
           /\ onsets' = [onsets EXCEPT ![i + 1] = r.onset]
           /\ resolved_codas' = [resolved_codas EXCEPT ![i] = r.coda]
           /\ applies_alaska_rule' = r.applies
    /\ i' = i + 1
    /\ UNCHANGED <<pc, pron, alaska_rule, nuclei, codas, syllables, err,
                   score>>

\* Lines 161-165: the residual tail goes to the last coda; the resolver
\* returns onsets and resolved_codas, and its copy of nuclei is dropped.
\* resolved_codas[-1] of an empty list is Python's IndexError.
ResolveFinish ==
    /\ pc = "resolving"
    /\ i >= Len(onsets)
    /\ IF codas # <<>> /\ resolved_codas = <<>>
       THEN /\ err' = "index_error"
            /\ pc' = "raised"
            /\ UNCHANGED resolved_codas
       ELSE /\ resolved_codas' =
                   IF codas # <<>>
                   THEN [resolved_codas EXCEPT
                            ![Len(resolved_codas)] = @ \o codas]
                   ELSE resolved_codas
            /\ pc' = "resolved"
            /\ UNCHANGED err
    /\ UNCHANGED <<pron, alaska_rule, nuclei, r_nuclei, onsets, codas, i,
                   applies_alaska_rule, syllables, score>>

(***************************************************************************)
(* syllabify                                                               *)
(***************************************************************************)
Min(a, b) == IF a < b THEN a ELSE b

\* Lines 189-192: zip stops at the shortest of its three arguments.
ZipSyllables(ons, nuc, cod) ==
    [k \in 1..Min(Len(ons), Min(Len(nuc), Len(cod))) |->
        [onset |-> ons[k], nucleus |-> nuc[k], coda |-> cod[k]]]

\* Lines 195-196.
ExtendLastCoda(syl, ons, cod) ==
    IF Len(cod) > Len(ons)
    THEN [syl EXCEPT ![Len(syl)].coda = @ \o cod[Len(cod)]]
    ELSE syl

\* Line 199: chain.from_iterable over onset + nucleus + coda.
RECURSIVE Flatten(_)
Flatten(syl) ==
    IF syl = <<>> THEN <<>>
    ELSE Head(syl).onset \o Head(syl).nucleus \o Head(syl).coda
         \o Flatten(Tail(syl))

\* The round-trip gate left open.
RoundTripFails_Never(flat_output, pronunciation) == FALSE

\* Line 200: the condition of the round-trip gate.
RoundTripFails(flat_output, pronunciation) ==
    flat_output # pronunciation

\* Lines 189-203: assembly, the round-trip gate, and the return.
Assemble ==
    /\ pc = "resolved"
    /\ LET syl == ExtendLastCoda(ZipSyllables(onsets, nuclei, resolved_codas),
                                 onsets, resolved_codas)
       IN  /\ syllables' = syl
           /\ IF RoundTripFails(Flatten(syl), pron)
              THEN err' = "syllabification" /\ pc' = "raised"
              ELSE err' = err /\ pc' = "returned"
    /\ UNCHANGED <<pron, alaska_rule, nuclei, r_nuclei, onsets, codas,
                   resolved_codas, i, applies_alaska_rule, score>>

(***************************************************************************)
(* wcm                                                                     *)
(***************************************************************************)
\* Lines 45-51: the cluster points of the syllables from position k on.
RECURSIVE ClusterPoints(_, _)
ClusterPoints(syl, k) ==
    IF k > Len(syl) THEN 0
    ELSE (IF Len(syl[k].onset) > 1 THEN 1 ELSE 0)
         + (IF Len(syl[k].coda) > 1 THEN 1 ELSE 0)
         + ClusterPoints(syl, k + 1)

\* Lines 54-72: the sound-class points of the syllables from position k on.
RECURSIVE SoundClassPoints(_, _)
SoundClassPoints(syl, k) ==
    IF k > Len(syl) THEN 0
    ELSE LET consonants == syl[k].onset \o syl[k].coda
         IN  CountIn(consonants, DORSALS)
             + CountIn(consonants, LIQUIDS)
             + CountIn(consonants, AF)
             + CountIn(consonants, VOICED_AF)
             + SoundClassPoints(syl, k + 1)

\* Lines 34-36: primary stress on a syllable of syl[from:] (from 0-based).
StressAfter(syl, from) ==
    \E k \in (from + 1)..Len(syl) : HasPrimaryStressDigit(syl[k].nucleus[1])

\* The score with the stress test run over every syllable, the first too.
WcmScore_StressFromFirst(syl) ==
    (IF Len(syl) > 2 THEN 1 ELSE 0)
    + (IF Len(syl) > 1 /\ StressAfter(syl, 0) THEN 1 ELSE 0)
    + (IF syl[Len(syl)].coda # <<>> THEN 1 ELSE 0)
    + ClusterPoints(syl, 1)
    + SoundClassPoints(syl, 1)

\* Lines 25-74: the score of a non-empty syllable list.
WcmScore(syl) ==
    (IF Len(syl) > 2 THEN 1 ELSE 0)
    + (IF Len(syl) > 1 /\ StressAfter(syl, 1) THEN 1 ELSE 0)
    + (IF syl[Len(syl)].coda # <<>> THEN 1 ELSE 0)
    + ClusterPoints(syl, 1)
    + SoundClassPoints(syl, 1)

\* wcm(pron): line 24 is the call syllabify(phonemes) with the default
\* alaska_rule, whose error propagates; lines 25-74 score what it returned.
Wcm ==
    /\ pc = "returned"
    /\ alaska_rule
    /\ score' = WcmScore(syllables)
    /\ pc' = "scored"
    /\ UNCHANGED <<pron, alaska_rule, nuclei, r_nuclei, onsets, codas,
                   resolved_codas, i, applies_alaska_rule, syllables, err>>

Next ==
    \/ Identify
    \/ ResolveReject
    \/ ResolveEnter
    \/ ResolveStep
    \/ ResolveFinish
    \/ Assemble
    \/ Wcm

Spec == Init /\ [][Next]_vars

(***************************************************************************)
(* Vocabulary of the properties, read off the input pronunciation alone.   *)
(***************************************************************************)
Done == pc \in {"returned", "raised", "scored"}

Returned == pc \in {"returned", "scored"}

VowelPositions(p) == {j \in 1..Len(p) : p[j] \in VOWELS}

\* The pairs of positions of two consecutive vowels of p.
ConsecutiveVowels(p) ==
    {ab \in VowelPositions(p) \X VowelPositions(p) :
        /\ ab[1] < ab[2]
        /\ \A j \in VowelPositions(p) : ~(ab[1] < j /\ j < ab[2])}

\* The consonants between two consecutive vowels.
Group(p, ab) == SubSeq(p, ab[1] + 1, ab[2] - 1)

\* The (1-based) number of the syllable whose vowel is at position a.
SylOf(p, a) == Cardinality({j \in VowelPositions(p) : j <= a})

LegalOnset(onset) ==
    Len(onset) >= 2 =>
        \/ Len(onset) = 2 /\ onset \in O2
        \/ Len(onset) = 3 /\ onset \in O3

NoVowel(p) == VowelPositions(p) = {}

(***************************************************************************)
(* C1.  Whenever syllabify returns, the concatenation of onset, nucleus    *)
(* and coda of the returned syllables, in order, is the input.             *)
(***************************************************************************)
C1_RoundTrip ==
    Returned => Flatten(syllables) = pron

C1_Witness ==
    /\ Returned
    /\ Len(syllables) >= 2
    /\ \E k \in 1..Len(syllables) : Len(syllables[k].onset) >= 2
    /\ \E k \in 1..Len(syllables) : syllables[k].coda # <<>>

(***************************************************************************)
(* C2.  syllabify(Alaska) with the default alaska_rule returns             *)
(* []-AH0-[], [L]-AE1-[], [S,K]-AH0-[].                                    *)
(***************************************************************************)
C2_AlaskaExample ==
    (Done /\ pron = Alaska /\ alaska_rule) =>
        /\ Returned
        /\ syllables =
             << [onset |-> <<>>, nucleus |-> <<"AH0">>, coda |-> <<>>],
                [onset |-> <<"L">>, nucleus |-> <<"AE1">>, coda |-> <<>>],
                [onset |-> <<"S", "K">>, nucleus |-> <<"AH0">>,
                 coda |-> <<>>] >>

(***************************************************************************)
(* C3.  Whenever syllabify returns, there are as many syllables as the     *)
(* input has vowels.                                                       *)
(***************************************************************************)
C3_SyllableCount ==
    Returned => Len(syllables) = Cardinality(VowelPositions(pron))

C3_Witness ==
    /\ Returned
    /\ Len(syllables) = 3
    /\ Len(pron) > 3

(***************************************************************************)
(* C4.  As claimed: every onset of two or more consonants of a returned    *)
(* syllabification is a pair of O2 or a triple of O3.                      *)
(***************************************************************************)
C4_EveryOnsetLegal ==
    Returned => \A k \in 1..Len(syllables) : LegalOnset(syllables[k].onset)

(***************************************************************************)
(* C4, amended.  Every onset of two or more consonants of a syllable other *)
(* than the first is a pair of O2 or a triple of O3; the word-initial      *)
(* onset is whatever precedes the first vowel.                             *)
(***************************************************************************)
C4_MedialOnsetLegal ==
    Returned => \A k \in 2..Len(syllables) : LegalOnset(syllables[k].onset)

C4_Witness ==
    /\ Returned
    /\ \E k \in 2..Len(syllables) :
          /\ Len(syllables[k].onset) >= 2
          /\ syllables[k - 1].coda # <<>>

(***************************************************************************)
(* C5.  With alaska_rule false the Alaska step never applies, and a medial *)
(* group after a stressed lax vowel that is exactly a legal S-initial pair *)
(* or triple is the whole onset of the following syllable, the preceding   *)
(* coda being empty.                                                       *)
(***************************************************************************)
C5_AlaskaOff ==
    ~alaska_rule =>
        /\ ~applies_alaska_rule
        /\ Returned =>
             \A ab \in ConsecutiveVowels(pron) :
                LET g == Group(pron, ab)
                IN  (/\ pron[ab[1]] \in SLAX
                     /\ g \in O2 \cup O3
                     /\ g[1] = "S")
                    => /\ syllables[SylOf(pron, ab[2])].onset = g
                       /\ syllables[SylOf(pron, ab[1])].coda = <<>>

C5_Witness ==
    /\ Returned
    /\ ~alaska_rule
    /\ \E ab \in ConsecutiveVowels(pron) :
          /\ pron[ab[1]] \in SLAX
          /\ Group(pron, ab) = <<"S", "T", "R">>

C7_EmptyReturnsEmpty ==
    (Done /\ pron = <<>>) =>
        /\ Returned
        /\ syllables = <<>>
        /\ err = "none"

(***************************************************************************)
(* C7, amended.  The empty pronunciation is rejected by the resolver's     *)
(* check of its arguments (empty nuclei and onsets), and no syllable list  *)
(* is built or returned.                                                   *)
(***************************************************************************)
C7_EmptyRejected ==
    (Done /\ pron = <<>>) =>
        /\ pc = "raised"
        /\ err = "invalid_input"
        /\ syllables = <<>>

C7_Witness ==
    /\ pron = <<>>
    /\ pc = "raised"

(***************************************************************************)
(* C8.  As claimed: a non-empty pronunciation without a vowel fails at the *)
(* round-trip gate.                                                        *)
(***************************************************************************)
C8_NoVowelFailsRoundTrip ==
    (Done /\ pron # <<>> /\ NoVowel(pron)) =>
        /\ pc = "raised"
        /\ err = "syllabification"

(***************************************************************************)
(* C8, amended.  A non-empty pronunciation without a vowel never returns a *)
(* syllable list: it is rejected by the resolver's check of its arguments, *)
(* before any rule has run and before the round-trip gate.                 *)
(***************************************************************************)
C8_NoVowelRejected ==
    (Done /\ pron # <<>> /\ NoVowel(pron)) =>
        /\ pc = "raised"
        /\ err = "invalid_input"
        /\ syllables = <<>>
        /\ resolved_codas = <<>>

C8_Witness ==
    /\ pron = <<"S", "T", "R">>
    /\ pc = "raised"

(***************************************************************************)
(* C9.  The score of an accepted pronunciation is the sum of the word      *)
(* pattern, syllable structure and sound class points; a voiced fricative  *)
(* counts twice; wcm of K AE1 T is 2.                                      *)
(***************************************************************************)
\* The points of one consonant occurrence, as the claim lists them.
ConsonantPoints(ph) ==
    CASE ph \in {"K", "G", "NG"} -> 1
      [] ph \in {"L", "R"} -> 1
      [] ph \in {"V", "DH", "Z", "ZH"} -> 2
      [] ph \in {"F", "TH", "S", "SH", "CH"} -> 1
      [] OTHER -> 0

RECURSIVE SumPoints(_)
SumPoints(consonants) ==
    IF consonants = <<>> THEN 0
    ELSE ConsonantPoints(Head(consonants)) + SumPoints(Tail(consonants))

RECURSIVE SyllablePoints(_)
SyllablePoints(syl) ==
    IF syl = <<>> THEN 0
    ELSE (IF Len(Head(syl).onset) >= 2 THEN 1 ELSE 0)
         + (IF Len(Head(syl).coda) >= 2 THEN 1 ELSE 0)
         + SumPoints(Head(syl).onset) + SumPoints(Head(syl).coda)
         + SyllablePoints(Tail(syl))

\* The positions of the primary-stressed vowels of p.
PrimaryStressed(p) ==
    {j \in VowelPositions(p) :
        p[j] \in {"IY1", "EY1", "AA1", "ER1", "AW1", "AO1", "AY1", "OW1",
                  "OY1", "IH1", "EH1", "AE1", "AH1", "UH1", "UW1"}}

ClaimedScore(p, syl) ==
    (IF Len(syl) > 2 THEN 1 ELSE 0)
    + (IF Len(syl) >= 2 /\ \E j \in PrimaryStressed(p) : SylOf(p, j) >= 2
       THEN 1 ELSE 0)
    + (IF syl[Len(syl)].coda # <<>> THEN 1 ELSE 0)
    + SyllablePoints(syl)

C9_WcmScore ==
    pc = "scored" =>
        /\ score = ClaimedScore(pron, syllables)
        /\ score >= 0
        /\ pron = Cat => score = 2

C9_Witness ==
    /\ pc = "scored"
    /\ Len(syllables) >= 2
    /\ \E j \in PrimaryStressed(pron) : SylOf(pron, j) >= 2
    /\ \E k \in 1..Len(syllables) :
          /\ Len(syllables[k].onset) >= 2
          /\ \E n \in 1..Len(syllables[k].onset) :
                syllables[k].onset[n] \in {"V", "DH", "Z", "ZH"}

(***************************************************************************)
(* C10.  A medial group of more than one phoneme that starts with R gives  *)
(* its R to the preceding syllable's nucleus: syllabify returns, the       *)
(* nucleus ends with the vowel followed by R, and the rest of the group is *)
(* the preceding coda, the following onset and a transferred glide.        *)
(***************************************************************************)
C10_RTransfer ==
    Done =>
        \A ab \in ConsecutiveVowels(pron) :
           LET g == Group(pron, ab)
           IN  (Len(g) > 1 /\ g[1] = "R")
               => /\ Returned
                  /\ LET prev == syllables[SylOf(pron, ab[1])]
                         next == syllables[SylOf(pron, ab[2])]
                         n    == Len(prev.nucleus)
                     IN  /\ n >= 2
                         /\ prev.nucleus[n] = "R"
                         /\ prev.nucleus[n - 1] = pron[ab[1]]
                         /\ prev.coda \o next.onset
                              \o SubSeq(next.nucleus, 1,
                                        Len(next.nucleus) - 1)
                            = Tail(g)

=============================================================================
